---- MODULE Spec2Model ----
(***************************************************************************)
(* Odds API pipeline: OddsAPIExtractor (fetch, flatten, aggregate, write), *)
(* DatabricksLoader (connect, ensure table, load, stats) and the Airflow   *)
(* DAG odds_api_pipeline that chains them.                                 *)
(*                                                                         *)
(* Conventions.  A Python Optional is a sequence of length at most one:    *)
(* None is <<>> and a value x is <<x>>.  A dict with an optional key is a  *)
(* record that has the field or not (dict.get reads DOMAIN).  A DataFrame  *)
(* is the sequence of its rows.  Decimal numbers are integers counting     *)
(* hundredths (2.5 is 250).                                                *)
(***************************************************************************)
EXTENDS Integers, Sequences, FiniteSets, TLC

VARIABLES
    now,                 \* wall clock, in seconds
    call,                \* the last direct call of a component and its result
    http_log,            \* GET requests issued to the odds provider, in order
    extraction_summary,  \* OddsAPIExtractor.extraction_summary
    combined_df,         \* the dataset extract_odds_for_leagues last returned
    files,               \* data/raw: file path -> rows of the CSV file
    connection,          \* DatabricksLoader.connection: "none", "open", "closed"
    table_exists,        \* whether bronze.odds_raw exists in the store
    table,               \* rows of bronze.odds_raw, in insertion order
    env,                 \* the environment variables that are set
    ti,                  \* the state of each task instance of the DAG run
    tries,               \* the tries each task instance has started
    xcom,                \* the XCom values of the DAG run
    emails,              \* the e-mails sent
    runs                 \* the DAG runs of the scheduler: state, task instances

vars == <<now, call, http_log, extraction_summary, combined_df, files,
          connection, table_exists, table, env, ti, tries, xcom, emails,
          runs>>

\* the task instances, their XComs and the e-mails of the DAG run
dag_vars == <<env, ti, tries, xcom, emails, runs>>

----------------------------------------------------------------------------
(* Bounds of the model *)

MaxClock == 1
MaxGames == 2
MaxBookmakers == 2
MaxLeagues == 2
\* consecutive calls of create_bronze_table by one caller
MaxCreates == 3
\* DAG runs the scheduler creates
MaxRuns == 2

----------------------------------------------------------------------------
(* Python values *)

None == <<>>
Some(x) == <<x>>

\* all sequences over S of length at most n
SeqUpTo(S, n) == UNION {[1..k -> S] : k \in 0..n}

RECURSIVE SumLen(_)
\* total length of a sequence of sequences
SumLen(ss) == IF ss = <<>> THEN 0 ELSE Len(Head(ss)) + SumLen(Tail(ss))

RECURSIVE Concat(_)
\* pd.concat(frames, ignore_index=True)
Concat(ss) == IF ss = <<>> THEN <<>> ELSE Head(ss) \o Concat(Tail(ss))

----------------------------------------------------------------------------
(* The provider's data: outcomes, markets, bookmakers, games *)

oHome == [name |-> "Arsenal", price |-> 210]
oAway == [name |-> "Chelsea", price |-> 340]
oOver == [name |-> "Over", price |-> 190, point |-> 250]
oUnder == [name |-> "Under", price |-> 195, point |-> 250]

mH2H == [key |-> "h2h", outcomes |-> <<oHome, oAway>>]
mTotals == [key |-> "totals", outcomes |-> <<oOver, oUnder>>]
mOver == [key |-> "totals", outcomes |-> <<oOver>>]
mBare == [key |-> "spreads"]

bkBetway == [key |-> "betway", markets |-> <<mH2H, mOver>>]
bkBetwayBare == [key |-> "betway", markets |-> <<mBare, mTotals>>]
bkOther == [key |-> "bet365", markets |-> <<mH2H, mTotals>>]
bkNoMarkets == [key |-> "betway"]

BookmakerPool == {bkBetway, bkBetwayBare, bkOther}

\* the provider's identifier of game number i of a response
GameId(i) == "g" \o ToString(i)

\* game number i of a response, with the bookmaker entries bks
Game(i, bks) ==
    [id |-> GameId(i), sport_key |-> "soccer_epl", sport_title |-> "EPL",
     home_team |-> "Arsenal", away_team |-> "Chelsea", commence_time |-> 5,
     bookmakers |-> bks]

\* a game object without the optional keys sport_key, sport_title, bookmakers
GameBare(i) ==
    [id |-> GameId(i), home_team |-> "Arsenal", away_team |-> "Chelsea",
     commence_time |-> 5]

BookmakerLists == SeqUpTo(BookmakerPool, MaxBookmakers) \cup {<<bkNoMarkets>>}

GameShapes ==
    {[bare |-> TRUE, bks |-> <<>>]} \cup
    {[bare |-> FALSE, bks |-> bl] : bl \in BookmakerLists}

GameOf(i, shape) == IF shape.bare THEN GameBare(i) ELSE Game(i, shape.bks)

\* the response bodies: lists of at most MaxGames games
RawPayloads ==
    UNION {{[i \in 1..n |-> GameOf(i, sh[i])] : sh \in [1..n -> GameShapes]} :
           n \in 0..MaxGames}

----------------------------------------------------------------------------
(* OddsAPIExtractor *)

SOCCER_LEAGUES ==
    [soccer_epl |-> "English Premier League (EPL)",
     soccer_la_liga |-> "Spanish La Liga",
     soccer_serie_a |-> "Italian Serie A",
     soccer_uefa_champs_league |-> "UEFA Champions League"]

\* dict.get(key, default) for the three optional list-valued keys
GetBookmakers(game) ==
    IF "bookmakers" \in DOMAIN game THEN game.bookmakers ELSE <<>>
GetMarkets(bookmaker) ==
    IF "markets" \in DOMAIN bookmaker THEN bookmaker.markets ELSE <<>>
GetOutcomes(market) ==
    IF "outcomes" \in DOMAIN market THEN market.outcomes ELSE <<>>

\* mutant of OddsRecord: the game's own sport_key is preferred to the argument
OddsRecord_GameKeyFirst(game, bookmaker, market, outcome, sport_key, t) ==
    [game_id |-> game.id,
     sport_key |-> IF "sport_key" \in DOMAIN game THEN game.sport_key
                   ELSE sport_key,
     sport_title |-> IF "sport_title" \in DOMAIN game THEN game.sport_title
                     ELSE "",
     home_team |-> game.home_team,
     away_team |-> game.away_team,
     commence_time |-> game.commence_time,
     bookmaker |-> bookmaker.key,
     market_type |-> market.key,
     outcome_name |-> outcome.name,
     odds |-> outcome.price,
     point |-> IF "point" \in DOMAIN outcome THEN Some(outcome.point)
               ELSE None,
     extracted_at |-> t]

\* the record dict of one outcome
OddsRecord(game, bookmaker, market, outcome, sport_key, t) ==
    [game_id |-> game.id,
     sport_key |-> IF sport_key /= "" THEN sport_key
                   ELSE IF "sport_key" \in DOMAIN game THEN game.sport_key
                   ELSE "",
     sport_title |-> IF "sport_title" \in DOMAIN game THEN game.sport_title
                     ELSE "",
     home_team |-> game.home_team,
     away_team |-> game.away_team,
     commence_time |-> game.commence_time,
     bookmaker |-> bookmaker.key,
     market_type |-> market.key,
     outcome_name |-> outcome.name,
     odds |-> outcome.price,
     point |-> IF "point" \in DOMAIN outcome THEN Some(outcome.point)
               ELSE None,
     extracted_at |-> t]

\* the loop over the outcomes of one market
MarketRecords(game, bookmaker, market, sport_key, t) ==
    LET outs == GetOutcomes(market)
    IN  [k \in 1..Len(outs) |->
            OddsRecord(game, bookmaker, market, outs[k], sport_key, t)]

\* mutant of BookmakerRecords: the bookmaker filter is missing
BookmakerRecords_NoFilter(game, bookmaker, sport_key, t) ==
    LET ms == GetMarkets(bookmaker)
    IN  Concat([m \in 1..Len(ms) |->
                   MarketRecords(game, bookmaker, ms[m], sport_key, t)])

\* the loop over the markets of one bookmaker entry; others than betway are
\* skipped
BookmakerRecords(game, bookmaker, sport_key, t) ==
    IF bookmaker.key /= "betway" THEN <<>>
    ELSE LET ms == GetMarkets(bookmaker)
         IN  Concat([m \in 1..Len(ms) |->
                        MarketRecords(game, bookmaker, ms[m], sport_key, t)])

GameRecords(game, sport_key, t) ==
    LET bks == GetBookmakers(game)
    IN  Concat([b \in 1..Len(bks) |->
                   BookmakerRecords(game, bks[b], sport_key, t)])

transform_to_dataframe(raw_data, sport_key, t) ==
    Concat([g \in 1..Len(raw_data) |-> GameRecords(raw_data[g], sport_key, t)])

\* the provider's answers to one GET /sports/{sport_key}/odds/
HttpFailures ==
    {[kind |-> "http_error", status |-> 401],
     [kind |-> "http_error", status |-> 429],
     [kind |-> "http_error", status |-> 500],
     [kind |-> "network_error", status |-> 0]}

ApiBodies ==
    {<<>>,
     <<Game(1, <<bkOther>>)>>,
     <<Game(1, <<bkBetway>>)>>,
     <<Game(1, <<bkOther, bkBetwayBare>>), GameBare(2)>>}

ApiResponses ==
    HttpFailures \cup {[kind |-> "ok", status |-> 200, body |-> b] : b \in ApiBodies}

\* the entry of http_log for one request
Request(sport_key, resp) ==
    [sport_key |-> sport_key, kind |-> resp.kind, status |-> resp.status]

\* extract_odds: the data of the response, None on an HTTPError or any other
\* RequestException
extract_odds(sport_key, resp) ==
    IF resp.kind = "ok" THEN Some(resp.body) ELSE None

\* `if raw_data:` : neither None nor an empty list
Truthy(opt) == opt /= None /\ opt[1] /= <<>>

\* the body of the loop over the leagues: the frame one league contributes
LeagueFrame(league_key, resp, t) ==
    LET raw_data == extract_odds(league_key, resp)
    IN  IF Truthy(raw_data)
        THEN transform_to_dataframe(raw_data[1], league_key, t)
        ELSE <<>>

\* the entries of extraction_summary one league adds
LeagueSummary(league_key, resp, t) ==
    LET df == LeagueFrame(league_key, resp, t)
    IN  IF df /= <<>>
        THEN <<[league |-> SOCCER_LEAGUES[league_key],
                league_key |-> league_key,
                matches |-> Len(resp.body),
                records |-> Len(df),
                extracted_at |-> t]>>
        ELSE <<>>

\* mutant of ValidLeagues: the requested keys are not validated
ValidLeagues_NoFilter(leagues) ==
    IF leagues = None
    THEN <<"soccer_epl", "soccer_la_liga", "soccer_serie_a",
           "soccer_uefa_champs_league">>
    ELSE leagues[1]

\* the validated list of leagues: the supported keys of the request, in order
ValidLeagues(leagues) ==
    LET requested == IF leagues = None
                     THEN <<"soccer_epl", "soccer_la_liga", "soccer_serie_a",
                            "soccer_uefa_champs_league">>
                     ELSE leagues[1]
        IsSupported(l) == l \in DOMAIN SOCCER_LEAGUES
    IN  SelectSeq(requested, IsSupported)

\* mutant of extract_odds_for_leagues: the first failed fetch ends the loop
extract_odds_for_leagues_AbortOnFailure(leagues, resps, t) ==
    LET valid == ValidLeagues(leagues)
        failed == {i \in 1..Len(valid) : resps[i].kind /= "ok"}
        n == IF failed = {} THEN Len(valid)
             ELSE CHOOSE i \in failed : \A j \in failed : i <= j
    IN  [df |-> Concat([i \in 1..n |-> LeagueFrame(valid[i], resps[i], t)]),
         requests |-> [i \in 1..n |-> Request(valid[i], resps[i])],
         summary |-> Concat([i \in 1..n |->
                                LeagueSummary(valid[i], resps[i], t)])]

\* extract_odds_for_leagues, where resps[i] answers the i-th request:
\* the combined frame, the requests issued and the summary entries added
extract_odds_for_leagues(leagues, resps, t) ==
    LET valid == ValidLeagues(leagues)
        n == Len(valid)
    IN  [df |-> Concat([i \in 1..n |-> LeagueFrame(valid[i], resps[i], t)]),
         requests |-> [i \in 1..n |-> Request(valid[i], resps[i])],
         summary |-> Concat([i \in 1..n |->
                                LeagueSummary(valid[i], resps[i], t)])]

----------------------------------------------------------------------------
(* The CSV file: cells are text *)

\* the numbers a cell of this model can hold
KnownNumbers == {210, 340, 190, 195, 250, 5} \cup (0..MaxClock)

\* mutant of NumberCell: a missing number is written as 0
NumberCell_ZeroForNone(opt) == IF opt = None THEN ToString(0) ELSE ToString(opt[1])

\* to_csv of an optional number: NaN/None is written as the empty cell
NumberCell(opt) == IF opt = None THEN "" ELSE ToString(opt[1])

\* to_csv of one row
CsvRow(r) ==
    [game_id |-> r.game_id, sport_key |-> r.sport_key,
     sport_title |-> r.sport_title, home_team |-> r.home_team,
     away_team |-> r.away_team,
     commence_time |-> ToString(r.commence_time),
     bookmaker |-> r.bookmaker, market_type |-> r.market_type,
     outcome_name |-> r.outcome_name,
     odds |-> ToString(r.odds),
     point |-> NumberCell(r.point),
     extracted_at |-> ToString(r.extracted_at)]

\* to_csv: the header line and one line per row
to_csv(df) == [header |-> TRUE, rows |-> [i \in 1..Len(df) |-> CsvRow(df[i])]]

\* the file path save_to_csv builds: data/raw/{filename}_{timestamp}.csv
FilePath(filename, t) == [dir |-> "data/raw", name |-> filename, timestamp |-> t]

\* files after writing rows to path
WriteFile(fs, path, rows) ==
    [p \in DOMAIN fs \cup {path} |-> IF p = path THEN rows ELSE fs[p]]

\* save_to_csv: the path returned and the files after it; io_ok is whether
\* df.to_csv succeeds
save_to_csv(df, filename, io_ok, t, fs) ==
    IF df = <<>> THEN [result |-> None, files |-> fs]
    ELSE IF io_ok
         THEN [result |-> Some(FilePath(filename, t)),
               files |-> WriteFile(fs, FilePath(filename, t), to_csv(df))]
         ELSE [result |-> None, files |-> fs]

----------------------------------------------------------------------------
(* DatabricksLoader *)

\* batch_size of load_csv_to_bronze
BatchSize == 100

\* the missing value of a text column after read_csv
NaN == "nan"

\* read_csv of a text cell: the empty cell is a missing value
ReadText(cell) == IF cell = "" THEN NaN ELSE cell

\* read_csv and pd.to_numeric(errors='coerce') / pd.to_datetime of a numeric
\* cell: the number the text denotes, missing for the empty cell and for text
\* that denotes no number
ReadNumber(cell) ==
    IF \E n \in KnownNumbers : ToString(n) = cell
    THEN Some(CHOOSE n \in KnownNumbers : ToString(n) = cell)
    ELSE None

\* one row of the frame load_csv_to_bronze builds from a row of the file, with
\* the two ingestion columns
LoadedRow(c, t) ==
    [game_id |-> ReadText(c.game_id), sport_key |-> ReadText(c.sport_key),
     sport_title |-> ReadText(c.sport_title),
     home_team |-> ReadText(c.home_team), away_team |-> ReadText(c.away_team),
     commence_time |-> ReadNumber(c.commence_time),
     bookmaker |-> ReadText(c.bookmaker),
     market_type |-> ReadText(c.market_type),
     outcome_name |-> ReadText(c.outcome_name),
     odds |-> ReadNumber(c.odds),
     point |-> ReadNumber(c.point),
     extracted_at |-> ReadNumber(c.extracted_at),
     ingestion_date |-> t \div 86400,
     ingestion_timestamp |-> t]

\* the frame of a file, after the ingestion columns and the coercions
read_csv(file, t) == [i \in 1..Len(file.rows) |-> LoadedRow(file.rows[i], t)]

Min(a, b) == IF a < b THEN a ELSE b

\* mutant of Batches: the last, partial batch is left out
Batches_DropPartial(df) ==
    [b \in 1..(Len(df) \div BatchSize) |->
        SubSeq(df, (b - 1) * BatchSize + 1, b * BatchSize)]

\* the batches df.iloc[i:i+batch_size] for i in range(0, len(df), batch_size)
Batches(df) ==
    [b \in 1..((Len(df) + BatchSize - 1) \div BatchSize) |->
        SubSeq(df, (b - 1) * BatchSize + 1, Min(b * BatchSize, Len(df)))]

\* connect: whether it succeeded, and the connection after it
connect(ok, conn) ==
    IF ok THEN [result |-> TRUE, connection |-> "open"]
    ELSE [result |-> FALSE, connection |-> conn]

\* mutant of close: the connection is left as it is
close_Noop(conn) == conn

\* close: a connection object, open or closed, is closed; None is left alone
close(conn) == IF conn = "none" THEN conn ELSE "closed"

\* mutant of create_bronze_table: an error of the statement reaches the caller
create_bronze_table_Raises(ddl_ok, conn, exists) ==
    IF conn = "open" /\ ddl_ok
    THEN [result |-> TRUE, raised |-> "none", table_exists |-> TRUE]
    ELSE [result |-> FALSE, raised |-> "Exception", table_exists |-> exists]

\* create_bronze_table: True whatever happens; the table exists afterwards if
\* the CREATE TABLE IF NOT EXISTS statement ran
create_bronze_table(ddl_ok, conn, exists) ==
    [result |-> TRUE, raised |-> "none",
     table_exists |-> exists \/ (conn = "open" /\ ddl_ok)]

\* mutant of InsertRows: a failed insert rolls the rows of this load back
InsertRows_Rollback(df, fail_at, exists, tbl) ==
    LET rows == Concat(Batches(df))
        k == IF ~exists THEN 1 ELSE fail_at
    IN  IF k = 0 \/ k > Len(rows)
        THEN [ok |-> TRUE, table |-> tbl \o rows]
        ELSE [ok |-> FALSE, table |-> tbl]

\* mutant of InsertRows: the rows of the load replace the rows of the table
InsertRows_Overwrite(df, fail_at, exists, tbl) ==
    LET rows == Concat(Batches(df))
        k == IF ~exists THEN 1 ELSE fail_at
    IN  IF k = 0 \/ k > Len(rows)
        THEN [ok |-> TRUE, table |-> rows]
        ELSE [ok |-> FALSE, table |-> SubSeq(rows, 1, k - 1)]

\* the insert loop: one INSERT per row of each batch in turn, each one
\* committed as it is executed; the execute number fail_at raises (0: none
\* does), and every execute raises while the table does not exist
InsertRows(df, fail_at, exists, tbl) ==
    LET rows == Concat(Batches(df))
        k == IF ~exists THEN 1 ELSE fail_at
    IN  IF k = 0 \/ k > Len(rows)
        THEN [ok |-> TRUE, table |-> tbl \o rows]
        ELSE [ok |-> FALSE, table |-> tbl \o SubSeq(rows, 1, k - 1)]

\* load_csv_to_bronze: the row count returned, the table after it and the
\* exception the method caught and logged, if any.  Every path returns: no
\* exception leaves the method.
load_csv_to_bronze(csv_filepath, fail_at, fs, conn, exists, tbl, t) ==
    IF csv_filepath \notin DOMAIN fs
    THEN [result |-> 0, table |-> tbl, caught |-> "FileNotFoundError"]
    ELSE IF ~fs[csv_filepath].header
    THEN [result |-> 0, table |-> tbl, caught |-> "EmptyDataError"]
    ELSE LET df == read_csv(fs[csv_filepath], t)
         IN  IF df = <<>>
             THEN [result |-> 0, table |-> tbl, caught |-> "none"]
             ELSE IF conn /= "open"
             THEN [result |-> 0, table |-> tbl, caught |-> "Exception"]
             ELSE LET ins == InsertRows(df, fail_at, exists, tbl)
                  IN  IF ins.ok
                      THEN [result |-> Len(df), table |-> ins.table,
                            caught |-> "none"]
                      ELSE [result |-> 0, table |-> ins.table,
                            caught |-> "Exception"]

\* the largest element of a non-empty set of numbers
Max(S) == CHOOSE x \in S : \A y \in S : y <= x

\* mutant of get_table_stats: the aggregates read before the failing query
\* are returned
get_table_stats_Partial(query_fail, conn, exists, tbl) ==
    IF conn /= "open" \/ ~exists \/ query_fail = 1
    THEN <<>>
    ELSE IF query_fail /= 0
    THEN [row_count |-> Len(tbl)]
    ELSE [row_count |-> Len(tbl),
          latest_date |-> IF tbl = <<>> THEN None
                          ELSE Some(Max({tbl[i].ingestion_date :
                                            i \in 1..Len(tbl)})),
          sports |-> Cardinality({tbl[i].sport_key : i \in 1..Len(tbl)}),
          matches |-> Cardinality({tbl[i].game_id : i \in 1..Len(tbl)}),
          markets |-> Cardinality({tbl[i].market_type : i \in 1..Len(tbl)})]

\* get_table_stats: the five aggregates, or {} when a query raises; the query
\* number query_fail raises (0: none does), and every query raises while the
\* table does not exist or the connection is not open
get_table_stats(query_fail, conn, exists, tbl) ==
    IF conn /= "open" \/ ~exists \/ query_fail /= 0
    THEN <<>>
    ELSE [row_count |-> Len(tbl),
          latest_date |-> IF tbl = <<>> THEN None
                          ELSE Some(Max({tbl[i].ingestion_date :
                                            i \in 1..Len(tbl)})),
          sports |-> Cardinality({tbl[i].sport_key : i \in 1..Len(tbl)}),
          matches |-> Cardinality({tbl[i].game_id : i \in 1..Len(tbl)}),
          markets |-> Cardinality({tbl[i].market_type : i \in 1..Len(tbl)})]

\* the number of rows of the file at path, 0 if there is none
RowsAt(path) == IF path \in DOMAIN files THEN Len(files[path].rows) ELSE 0

\* games with a single betway outcome
bkOneOver == [key |-> "betway", markets |-> <<mOver>>]
mHome == [key |-> "h2h", outcomes |-> <<oHome>>]
bkOneHome == [key |-> "betway", markets |-> <<mHome>>]

\* a dataset of n rows: the records of n games with one betway outcome each
Dataset(n) ==
    [i \in 1..n |->
        IF i % 2 = 1
        THEN OddsRecord(Game(i, <<bkOneOver>>), bkOneOver, mOver, oOver,
                        "soccer_epl", 0)
        ELSE OddsRecord(Game(i, <<bkOneHome>>), bkOneHome, mHome, oHome,
                        "soccer_epl", 0)]

\* the numbers of rows of the files of data/raw
FileLengths == <<0, 1, 3, BatchSize, BatchSize + 1, 2 * BatchSize + 1>>

\* data/raw: a zero-byte file, and the files written for FileLengths
LoaderFiles ==
    [p \in {FilePath("odds_extracted", i) : i \in 0..Len(FileLengths)} |->
        IF p.timestamp = 0 THEN [header |-> FALSE, rows |-> <<>>]
        ELSE to_csv(Dataset(FileLengths[p.timestamp]))]

\* a path of no file
MissingPath == FilePath("odds_extracted", Len(FileLengths) + 1)

\* rows an earlier run loaded
OldRows == read_csv(to_csv(Dataset(2)), 0)

----------------------------------------------------------------------------
(* Initial state and the clock *)

NoFiles == [p \in {} |-> <<>>]

\* the tasks of the DAG odds_api_pipeline
Tasks ==
    {"extract_odds", "load_to_databricks", "validate_data", "prepare_summary",
     "run_dbt_models", "run_dbt_tests", "send_success_email",
     "send_failure_email"}

\* no XCom pushed: xcom_pull gives None for every key
NoXCom ==
    [csv_filepath |-> None, row_count |-> None, rows_loaded |-> None,
     db_stats |-> None, validation_passed |-> None,
     validate_data_return |-> None, pipeline_summary |-> None]

\* every credential set
FullEnv ==
    [ODDS_API_KEY |-> TRUE, DATABRICKS_HOST |-> TRUE,
     DATABRICKS_HTTP_PATH |-> TRUE, DATABRICKS_TOKEN |-> TRUE]

\* a DAG run the scheduler has not created yet
IdleRun ==
    [state |-> "none", ti |-> [t \in Tasks |-> "none"],
     tries |-> [t \in Tasks |-> 0]]

\* no DAG run created
NoRuns == [r \in 1..MaxRuns |-> IdleRun]

\* no DAG run: the components are called directly
DagIdle ==
    /\ runs = NoRuns
    /\ env = FullEnv
    /\ ti = [t \in Tasks |-> "none"]
    /\ tries = [t \in Tasks |-> 0]
    /\ xcom = NoXCom
    /\ emails = {}

Init ==
    /\ now = 0
    /\ call = [op |-> "none"]
    /\ http_log = <<>>
    /\ extraction_summary = <<>>
    /\ combined_df = <<>>
    /\ files = NoFiles
    /\ connection = "none"
    /\ table_exists = FALSE
    /\ table = <<>>
    /\ DagIdle

Tick ==
    /\ now < MaxClock
    /\ now' = now + 1
    /\ UNCHANGED <<call, http_log, extraction_summary, combined_df, files,
                   connection, table_exists, table,
                   dag_vars>>

----------------------------------------------------------------------------
(* A caller of OddsAPIExtractor: one extractor, its methods called directly *)

\* the keys a caller asks for: the supported ones and an unknown one
RequestedKeys == DOMAIN SOCCER_LEAGUES \cup {"bogus_key"}

LeagueArgs == {None} \cup {Some(l) : l \in SeqUpTo(RequestedKeys, MaxLeagues)}

TransformCall ==
    /\ call.op = "none"
    /\ \E raw_data \in RawPayloads, sport_key \in {"", "soccer_la_liga"} :
          call' = [op |-> "transform_to_dataframe", raw_data |-> raw_data,
                   sport_key |-> sport_key,
                   result |-> transform_to_dataframe(raw_data, sport_key, now)]
    /\ UNCHANGED <<now, http_log, extraction_summary, combined_df, files,
                   connection, table_exists, table,
                   dag_vars>>

ExtractLeaguesCall ==
    /\ call.op = "none"
    /\ \E leagues \in LeagueArgs :
       \E resps \in [1..Len(ValidLeagues(leagues)) -> ApiResponses] :
          LET r == extract_odds_for_leagues(leagues, resps, now)
          IN  /\ call' = [op |-> "extract_odds_for_leagues",
                          leagues |-> leagues, resps |-> resps,
                          result |-> r.df]
              /\ http_log' = http_log \o r.requests
              /\ extraction_summary' = extraction_summary \o r.summary
              /\ combined_df' = r.df
    /\ UNCHANGED <<now, files, connection, table_exists, table,
                   dag_vars>>

SaveToCsvCall ==
    /\ call.op = "extract_odds_for_leagues"
    /\ \E io_ok \in BOOLEAN :
          LET r == save_to_csv(combined_df, "betway_exhaustive_markets",
                               io_ok, now, files)
          IN  /\ call' = [op |-> "save_to_csv", df |-> combined_df,
                          io_ok |-> io_ok, result |-> r.result]
              /\ files' = r.files
    /\ UNCHANGED <<now, http_log, extraction_summary, combined_df,
                   connection, table_exists, table,
                   dag_vars>>

NextExtractor == Tick \/ TransformCall \/ ExtractLeaguesCall \/ SaveToCsvCall

SpecExtractor == Init /\ [][NextExtractor]_vars

----------------------------------------------------------------------------
(* The DAG odds_api_pipeline: one DAG run under the Airflow scheduler *)

\* default_args['retries']
Retries == 2

\* the leagues the DAG extracts
DAG_SOCCER_LEAGUES ==
    <<"soccer_epl", "soccer_la_liga", "soccer_serie_a",
      "soccer_uefa_champs_league">>

\* the task dependencies
Upstream(t) ==
    CASE t = "extract_odds" -> {}
      [] t = "load_to_databricks" -> {"extract_odds"}
      [] t = "validate_data" -> {"load_to_databricks"}
      [] t = "prepare_summary" -> {"validate_data"}
      [] t = "run_dbt_models" -> {"prepare_summary", "validate_data"}
      [] t = "run_dbt_tests" -> {"run_dbt_models"}
      [] t = "send_success_email" -> {"run_dbt_tests", "prepare_summary"}
      [] t = "send_failure_email" -> {"run_dbt_tests", "prepare_summary"}

\* mutant of TriggerRule: send_failure_email runs whenever its upstream tasks
\* are done
TriggerRule_FailureAllDone(t) ==
    CASE t \in {"run_dbt_models", "run_dbt_tests", "send_failure_email"} ->
            "all_done"
      [] OTHER -> "all_success"

\* mutant of TriggerRule: run_dbt_models is left with the default rule
TriggerRule_TransformDefault(t) ==
    CASE t = "run_dbt_tests" -> "all_done"
      [] t = "send_failure_email" -> "one_failed"
      [] OTHER -> "all_success"

\* the trigger rule of each task; all_success is the default
TriggerRule(t) ==
    CASE t \in {"run_dbt_models", "run_dbt_tests"} -> "all_done"
      [] t = "send_failure_email" -> "one_failed"
      [] OTHER -> "all_success"

\* the states in which a task instance is finished
Finished == {"success", "failed", "upstream_failed", "skipped"}

AllUpstream(t, states) == \A u \in Upstream(t) : ti[u] \in states
SomeUpstream(t, states) == \E u \in Upstream(t) : ti[u] \in states

\* the scheduler may run t: its trigger rule is met
Runnable(t) ==
    CASE TriggerRule(t) = "all_success" -> AllUpstream(t, {"success"})
      [] TriggerRule(t) = "all_done" -> AllUpstream(t, Finished)
      [] TriggerRule(t) = "one_failed" ->
            SomeUpstream(t, {"failed", "upstream_failed"})

\* the scheduler starts a try of t
StartTask(t) ==
    /\ ti[t] \in {"none", "up_for_retry"}
    /\ Runnable(t)
    /\ ti' = [ti EXCEPT ![t] = "running"]
    /\ tries' = [tries EXCEPT ![t] = @ + 1]
    /\ UNCHANGED <<now, call, http_log, extraction_summary, combined_df,
                   files, connection, table_exists, table, env, xcom, emails,
                   runs>>

\* an all_success task with a failed upstream task never runs
MarkUpstreamFailed(t) ==
    /\ ti[t] = "none"
    /\ TriggerRule(t) = "all_success"
    /\ SomeUpstream(t, {"failed", "upstream_failed"})
    /\ ti' = [ti EXCEPT ![t] = "upstream_failed"]
    /\ UNCHANGED <<now, call, http_log, extraction_summary, combined_df,
                   files, connection, table_exists, table, env, tries, xcom,
                   emails, runs>>

\* a one_failed task whose upstream tasks all finished without a failure is
\* skipped
MarkSkipped(t) ==
    /\ ti[t] = "none"
    /\ TriggerRule(t) = "one_failed"
    /\ AllUpstream(t, Finished)
    /\ ~SomeUpstream(t, {"failed", "upstream_failed"})
    /\ ti' = [ti EXCEPT ![t] = "skipped"]
    /\ UNCHANGED <<now, call, http_log, extraction_summary, combined_df,
                   files, connection, table_exists, table, env, tries, xcom,
                   emails, runs>>

\* the state of t after a try that ended well (ok) or raised: a try that
\* raised is retried while retries are left
StateAfter(t, ok) ==
    IF ok THEN "success"
    ELSE IF tries[t] <= Retries THEN "up_for_retry"
    ELSE "failed"

\* the e-mail there is to send
Email(kind, task, summary) == [kind |-> kind, task |-> task, summary |-> summary]

\* the end of a try of t: its state, and the alert of email_on_failure once
\* it has failed for good
EndTry(t, ok, sent) ==
    /\ ti' = [ti EXCEPT ![t] = StateAfter(t, ok)]
    /\ emails' = (emails \cup sent) \cup
                 (IF StateAfter(t, ok) = "failed"
                  THEN {Email("task_failure_alert", t, None)} ELSE {})
    /\ UNCHANGED <<env, tries, runs>>

\* the answers of the provider in a DAG run
DagResponses ==
    {[kind |-> "http_error", status |-> 429],
     [kind |-> "ok", status |-> 200, body |-> <<Game(1, <<bkOther>>)>>],
     [kind |-> "ok", status |-> 200, body |-> <<Game(1, <<bkOneOver>>)>>]}

\* extract_odds_task
ExtractTask ==
    /\ ti["extract_odds"] = "running"
    /\ IF ~env.ODDS_API_KEY
       THEN /\ EndTry("extract_odds", FALSE, {})
            /\ UNCHANGED <<now, call, http_log, extraction_summary,
                           combined_df, files, connection, table_exists,
                           table, xcom>>
       ELSE \E resps \in [1..Len(DAG_SOCCER_LEAGUES) -> DagResponses],
               io_ok \in BOOLEAN :
               LET r == extract_odds_for_leagues(Some(DAG_SOCCER_LEAGUES),
                                                 resps, now)
                   w == save_to_csv(r.df, "odds_extracted", io_ok, now, files)
               IN  /\ http_log' = http_log \o r.requests
                   /\ extraction_summary' = r.summary
                   /\ combined_df' = r.df
                   /\ IF r.df = <<>>
                      THEN /\ call' = [op |-> "extract_odds_for_leagues",
                                       leagues |-> Some(DAG_SOCCER_LEAGUES),
                                       resps |-> resps, result |-> r.df]
                           /\ files' = files
                           /\ xcom' = [xcom EXCEPT !.csv_filepath = None,
                                                   !.row_count = Some(0)]
                      ELSE /\ call' = [op |-> "save_to_csv", df |-> r.df,
                                       io_ok |-> io_ok, result |-> w.result]
                           /\ files' = w.files
                           /\ xcom' = [xcom EXCEPT
                                          !.csv_filepath = w.result,
                                          !.row_count = Some(Len(r.df))]
                   /\ EndTry("extract_odds", TRUE, {})
                   /\ UNCHANGED <<now, connection, table_exists, table>>

\* not all([DATABRICKS_HOST, DATABRICKS_HTTP_PATH, DATABRICKS_TOKEN])
StoreCredentialMissing ==
    ~(env.DATABRICKS_HOST /\ env.DATABRICKS_HTTP_PATH /\ env.DATABRICKS_TOKEN)

\* mutant of LoadBranch: the credentials are tested before the file path
LoadBranch_CredentialsFirst(csv_filepath, missing) ==
    IF missing THEN "config_error"
    ELSE IF csv_filepath = None THEN "no_data"
    ELSE "load"

\* mutant of LoadBranch: the credentials are not tested
LoadBranch_NoCredentialTest(csv_filepath, missing) ==
    IF csv_filepath = None THEN "no_data" ELSE "load"

\* the branch load_to_databricks_task takes: `if not csv_filepath` comes
\* first, the test of the credentials second
LoadBranch(csv_filepath, missing) ==
    IF csv_filepath = None THEN "no_data"
    ELSE IF missing THEN "config_error"
    ELSE "load"

\* load_to_databricks_task
LoadTask ==
    /\ ti["load_to_databricks"] = "running"
    /\ IF LoadBranch(xcom.csv_filepath, StoreCredentialMissing) = "no_data"
       THEN /\ xcom' = [xcom EXCEPT !.rows_loaded = Some(0)]
            /\ EndTry("load_to_databricks", TRUE, {})
            /\ UNCHANGED <<now, call, http_log, extraction_summary,
                           combined_df, files, connection, table_exists,
                           table>>
       ELSE IF LoadBranch(xcom.csv_filepath, StoreCredentialMissing)
                  = "config_error"
       THEN /\ EndTry("load_to_databricks", FALSE, {})
            /\ UNCHANGED <<now, call, http_log, extraction_summary,
                           combined_df, files, connection, table_exists,
                           table, xcom>>
       ELSE \E ok \in BOOLEAN :
               LET cn == connect(ok, "none")
               IN  IF ~cn.result
                   THEN /\ connection' = cn.connection
                        /\ EndTry("load_to_databricks", FALSE, {})
                        /\ UNCHANGED <<now, call, http_log,
                                       extraction_summary, combined_df, files,
                                       table_exists, table, xcom>>
                   ELSE \E ddl_ok \in BOOLEAN,
                           fail_at \in 0..RowsAt(xcom.csv_filepath[1]),
                           query_fail \in 0..5 :
                           LET path == xcom.csv_filepath[1]
                               c == create_bronze_table(ddl_ok, cn.connection,
                                                        table_exists)
                               l == load_csv_to_bronze(path, fail_at, files,
                                        cn.connection, c.table_exists, table,
                                        now)
                               st == get_table_stats(query_fail, cn.connection,
                                                     c.table_exists, l.table)
                           IN  /\ table_exists' = c.table_exists
                               /\ table' = l.table
                               /\ connection' = close(cn.connection)
                               /\ call' = [op |-> "load_csv_to_bronze",
                                           path |-> path, fail_at |-> fail_at,
                                           connection |-> cn.connection,
                                           table_exists |-> c.table_exists,
                                           before |-> table,
                                           result |-> l.result,
                                           caught |-> l.caught,
                                           raised |-> "none"]
                               /\ xcom' = [xcom EXCEPT
                                              !.rows_loaded = Some(l.result),
                                              !.db_stats = Some(st)]
                               /\ EndTry("load_to_databricks", TRUE, {})
                               /\ UNCHANGED <<now, http_log,
                                              extraction_summary, combined_df,
                                              files>>

\* mutant of validate_data: a run without data fails the validation
validate_data_FailOnNoData(row_count, rows_loaded) ==
    IF row_count = Some(0) \/ rows_loaded = None
    THEN [ok |-> FALSE, pushed |-> None, ret |-> None]
    ELSE [ok |-> TRUE, pushed |-> Some(rows_loaded[1] > 0),
          ret |-> Some([status |-> "success",
                        validation_passed |-> rows_loaded[1] > 0,
                        rows_validated |-> rows_loaded[1]])]

\* mutant of validate_data: a row mismatch fails the validation
validate_data_FailOnMismatch(row_count, rows_loaded) ==
    IF row_count = Some(0)
    THEN [ok |-> TRUE, pushed |-> None,
          ret |-> Some([status |-> "no_data", validation_passed |-> FALSE])]
    ELSE IF rows_loaded = None \/ rows_loaded /= row_count
    THEN [ok |-> FALSE, pushed |-> None, ret |-> None]
    ELSE [ok |-> TRUE, pushed |-> Some(rows_loaded[1] > 0),
          ret |-> Some([status |-> "success",
                        validation_passed |-> rows_loaded[1] > 0,
                        rows_validated |-> rows_loaded[1]])]

\* the body of validate_data_task for the pulled counts: whether it ended
\* without raising, the value pushed under validation_passed (None: no push)
\* and the dict it returned.  `rows_loaded > 0` raises for a count of None;
\* a mismatch of the counts is only logged
validate_data(row_count, rows_loaded) ==
    IF row_count = Some(0)
    THEN [ok |-> TRUE, pushed |-> None,
          ret |-> Some([status |-> "no_data", validation_passed |-> FALSE])]
    ELSE IF rows_loaded = None
    THEN [ok |-> FALSE, pushed |-> None, ret |-> None]
    ELSE [ok |-> TRUE, pushed |-> Some(rows_loaded[1] > 0),
          ret |-> Some([status |-> "success",
                        validation_passed |-> rows_loaded[1] > 0,
                        rows_validated |-> rows_loaded[1]])]

\* validate_data_task; the dict a PythonOperator returns is pushed to XCom
\* as its return value
ValidateTask ==
    /\ ti["validate_data"] = "running"
    /\ LET v == validate_data(xcom.row_count, xcom.rows_loaded)
       IN  /\ xcom' = IF ~v.ok THEN xcom
                      ELSE [xcom EXCEPT
                              !.validation_passed =
                                  IF v.pushed = None THEN @ ELSE v.pushed,
                              !.validate_data_return = v.ret]
           /\ EndTry("validate_data", v.ok, {})
    /\ UNCHANGED <<now, call, http_log, extraction_summary, combined_df,
                   files, connection, table_exists, table>>

\* `value or 0` of a pulled count
OrZero(opt) == IF opt = None THEN 0 ELSE opt[1]

\* db_stats.get(key, 0)
StatOrZero(db_stats, key) ==
    IF key \in DOMAIN db_stats THEN db_stats[key] ELSE 0

\* the summary dict of prepare_summary_task
Summary(row_count, rows_loaded, db_stats) ==
    [extracted_rows |-> row_count,
     loaded_rows |-> rows_loaded,
     total_bronze_rows |-> StatOrZero(db_stats, "row_count"),
     sports_covered |-> StatOrZero(db_stats, "sports"),
     matches_total |-> StatOrZero(db_stats, "matches"),
     market_types |-> StatOrZero(db_stats, "markets"),
     latest_data_date |->
         IF "latest_date" \notin DOMAIN db_stats THEN "N/A"
         ELSE IF db_stats["latest_date"] = None THEN "None"
         ELSE ToString(db_stats["latest_date"][1]),
     status |-> IF rows_loaded > 0 THEN "success" ELSE "no_data"]

\* prepare_summary_task
SummaryTask ==
    /\ ti["prepare_summary"] = "running"
    /\ xcom' = [xcom EXCEPT !.pipeline_summary =
                   Some(Summary(OrZero(xcom.row_count),
                                OrZero(xcom.rows_loaded),
                                IF xcom.db_stats = None THEN <<>>
                                ELSE xcom.db_stats[1]))]
    /\ EndTry("prepare_summary", TRUE, {})
    /\ UNCHANGED <<now, call, http_log, extraction_summary, combined_df,
                   files, connection, table_exists, table>>

\* run_dbt_models: dbt run exits with 0 or not
DbtRunTask ==
    /\ ti["run_dbt_models"] = "running"
    /\ \E ok \in BOOLEAN : EndTry("run_dbt_models", ok, {})
    /\ UNCHANGED <<now, call, http_log, extraction_summary, combined_df,
                   files, connection, table_exists, table, xcom>>

\* run_dbt_tests: dbt test exits with 0 or not
DbtTestTask ==
    /\ ti["run_dbt_tests"] = "running"
    /\ \E ok \in BOOLEAN : EndTry("run_dbt_tests", ok, {})
    /\ UNCHANGED <<now, call, http_log, extraction_summary, combined_df,
                   files, connection, table_exists, table, xcom>>

\* send_success_email: the summary of prepare_summary is mailed
SendSuccessEmail ==
    /\ ti["send_success_email"] = "running"
    /\ EndTry("send_success_email", TRUE,
              {Email("success", "send_success_email", xcom.pipeline_summary)})
    /\ UNCHANGED <<now, call, http_log, extraction_summary, combined_df,
                   files, connection, table_exists, table, xcom>>

\* send_failure_email
SendFailureEmail ==
    /\ ti["send_failure_email"] = "running"
    /\ EndTry("send_failure_email", TRUE,
              {Email("failure", "send_failure_email", None)})
    /\ UNCHANGED <<now, call, http_log, extraction_summary, combined_df,
                   files, connection, table_exists, table, xcom>>

\* the environments of a DAG run: every credential set, or one missing
Environments ==
    {e \in [{"ODDS_API_KEY", "DATABRICKS_HOST", "DATABRICKS_HTTP_PATH",
             "DATABRICKS_TOKEN"} -> BOOLEAN] :
        Cardinality({k \in DOMAIN e : ~e[k]}) <= 1}

\* a DAG run is created: no task instance has run, the store holds what
\* earlier runs left
InitDag ==
    /\ now = 0
    /\ call = [op |-> "none"]
    /\ http_log = <<>>
    /\ extraction_summary = <<>>
    /\ combined_df = <<>>
    /\ files = NoFiles
    /\ connection = "none"
    /\ \/ table_exists = FALSE /\ table = <<>>
       \/ table_exists = TRUE /\ table \in {<<>>, OldRows}
    /\ env \in Environments
    /\ runs = NoRuns
    /\ ti = [t \in Tasks |-> "none"]
    /\ tries = [t \in Tasks |-> 0]
    /\ xcom = NoXCom
    /\ emails = {}

Next ==
    \/ \E t \in Tasks : StartTask(t)
    \/ \E t \in Tasks : MarkUpstreamFailed(t)
    \/ \E t \in Tasks : MarkSkipped(t)
    \/ ExtractTask
    \/ LoadTask
    \/ ValidateTask
    \/ SummaryTask
    \/ DbtRunTask
    \/ DbtTestTask
    \/ SendSuccessEmail
    \/ SendFailureEmail

Spec == InitDag /\ [][Next]_vars

----------------------------------------------------------------------------
(* Claims about the extractor, checked under SpecExtractor *)

\* the places <<g, b, m, o>> of the outcomes nested under a betway bookmaker
\* entry of a response body
BetwayOutcomes(raw) ==
    {idx \in UNION {UNION {UNION {
                {<<g, b, m, o>> : o \in 1..Len(raw[g].bookmakers[b].markets[m].outcomes)} :
              m \in {x \in 1..Len(raw[g].bookmakers[b].markets) :
                        "outcomes" \in DOMAIN raw[g].bookmakers[b].markets[x]}} :
            b \in {x \in 1..Len(raw[g].bookmakers) :
                      "markets" \in DOMAIN raw[g].bookmakers[x]}} :
          g \in {x \in 1..Len(raw) : "bookmakers" \in DOMAIN raw[x]}} :
       raw[idx[1]].bookmakers[idx[2]].key = "betway"}

\* the places of the outcomes under any other bookmaker entry
OtherOutcomes(raw) ==
    {idx \in UNION {UNION {UNION {
                {<<g, b, m, o>> : o \in 1..Len(raw[g].bookmakers[b].markets[m].outcomes)} :
              m \in {x \in 1..Len(raw[g].bookmakers[b].markets) :
                        "outcomes" \in DOMAIN raw[g].bookmakers[b].markets[x]}} :
            b \in {x \in 1..Len(raw[g].bookmakers) :
                      "markets" \in DOMAIN raw[g].bookmakers[x]}} :
          g \in {x \in 1..Len(raw) : "bookmakers" \in DOMAIN raw[x]}} :
       raw[idx[1]].bookmakers[idx[2]].key /= "betway"}

\* idx comes before jdx in the order of the response
Before(idx, jdx) ==
    \E k \in 1..4 : idx[k] < jdx[k] /\ \A h \in 1..(k - 1) : idx[h] = jdx[h]

\* the position in the output of the record of the outcome at idx
Rank(raw, idx) == 1 + Cardinality({j \in BetwayOutcomes(raw) : Before(j, idx)})

\* C1: transform_to_dataframe emits exactly one record per (market, outcome)
\* pair under a bookmaker entry with key betway, in the order of the response,
\* and none for a bookmaker entry with another key; an empty game list or a
\* list without a betway entry gives the empty frame.
C1_FlattenOnePerBetwayOutcome ==
    call.op = "transform_to_dataframe" =>
        LET raw == call.raw_data
            out == call.result
        IN  /\ Len(out) = Cardinality(BetwayOutcomes(raw))
            /\ \A idx \in BetwayOutcomes(raw) :
                  LET r == out[Rank(raw, idx)]
                      market == raw[idx[1]].bookmakers[idx[2]].markets[idx[3]]
                  IN  /\ r.game_id = raw[idx[1]].id
                      /\ r.bookmaker = "betway"
                      /\ r.market_type = market.key
                      /\ r.outcome_name = market.outcomes[idx[4]].name
                      /\ r.odds = market.outcomes[idx[4]].price
            /\ \A i \in 1..Len(out) : out[i].bookmaker = "betway"
            /\ (BetwayOutcomes(raw) = {} => out = <<>>)

\* C1 witness: a flattened response that holds betway outcomes and outcomes
\* of another bookmaker, in two games
C1_Witness ==
    /\ call.op = "transform_to_dataframe"
    /\ Len(call.raw_data) = 2
    /\ OtherOutcomes(call.raw_data) /= {}
    /\ Cardinality(BetwayOutcomes(call.raw_data)) >= 4
    /\ Len(call.result) >= 4

\* the supported keys among the requested ones, in request order
RECURSIVE SupportedOf(_)
SupportedOf(keys) ==
    IF keys = <<>> THEN <<>>
    ELSE IF Head(keys) \in {"soccer_epl", "soccer_la_liga", "soccer_serie_a",
                            "soccer_uefa_champs_league"}
         THEN <<Head(keys)>> \o SupportedOf(Tail(keys))
         ELSE SupportedOf(Tail(keys))

\* the keys of the requests issued, in order
FetchedKeys == [i \in 1..Len(http_log) |-> http_log[i].sport_key]

\* C2: extract_odds_for_leagues fetches exactly the requested keys that are
\* among the 4 supported leagues, in request order; a key outside the set is
\* never fetched and no record of the combined dataset carries it.
C2_UnknownLeaguesDropped ==
    (call.op = "extract_odds_for_leagues" /\ call.leagues /= None) =>
        /\ FetchedKeys = SupportedOf(call.leagues[1])
        /\ \A i \in 1..Len(http_log) :
              http_log[i].sport_key \in {"soccer_epl", "soccer_la_liga",
                  "soccer_serie_a", "soccer_uefa_champs_league"}
        /\ \A i \in 1..Len(call.result) :
              call.result[i].sport_key /= "bogus_key"

\* C2 witness: the request ['soccer_epl', 'bogus_key'] fetched soccer_epl
\* alone and returned records
C2_Witness ==
    /\ call.op = "extract_odds_for_leagues"
    /\ call.leagues = Some(<<"soccer_epl", "bogus_key">>)
    /\ FetchedKeys = <<"soccer_epl">>
    /\ call.result /= <<>>

\* the number of records the i-th response accounts for
OkCount(resp) ==
    IF resp.kind = "ok" THEN Cardinality(BetwayOutcomes(resp.body)) ELSE 0

RECURSIVE OkCountUpTo(_, _)
\* the number of records the first n responses account for
OkCountUpTo(resps, n) ==
    IF n = 0 THEN 0 ELSE OkCountUpTo(resps, n - 1) + OkCount(resps[n])

\* C3: a failed fetch (401, 429, another HTTP status, a network error)
\* contributes no record and does not end the extraction: every valid
\* requested league is fetched, in request order, and the combined dataset
\* holds exactly the records of the leagues whose fetch succeeded.
C3_FetchFailureNotFatal ==
    call.op = "extract_odds_for_leagues" =>
        /\ Len(http_log) = Len(call.resps)
        /\ \A i \in 1..Len(http_log) :
              /\ http_log[i].kind = call.resps[i].kind
              /\ http_log[i].status = call.resps[i].status
        /\ (call.leagues /= None =>
               FetchedKeys = SupportedOf(call.leagues[1]))
        /\ (call.leagues = None =>
               FetchedKeys = <<"soccer_epl", "soccer_la_liga",
                               "soccer_serie_a", "soccer_uefa_champs_league">>)
        /\ Len(call.result) = OkCountUpTo(call.resps, Len(call.resps))

\* C3 witness: the first league answered 429, the second league was still
\* fetched and its records returned
C3_Witness ==
    /\ call.op = "extract_odds_for_leagues"
    /\ Len(http_log) >= 2
    /\ http_log[1].status = 429
    /\ http_log[2].kind = "ok"
    /\ call.result /= <<>>

\* C4: every record of the combined dataset carries the league key of the
\* request that produced it, whatever sport_key the game object holds.
C4_SportKeyIsRequestedKey ==
    call.op = "extract_odds_for_leagues" =>
        \A i \in 1..Len(call.resps) :
            \A k \in 1..OkCount(call.resps[i]) :
                LET pos == OkCountUpTo(call.resps, i - 1) + k
                IN  /\ pos <= Len(call.result)
                    /\ call.result[pos].sport_key = http_log[i].sport_key

\* C4 witness: records of a soccer_la_liga fetch whose games say soccer_epl
C4_Witness ==
    /\ call.op = "extract_odds_for_leagues"
    /\ \E i \in 1..Len(call.resps) :
          /\ http_log[i].sport_key = "soccer_la_liga"
          /\ call.resps[i].kind = "ok"
          /\ OkCount(call.resps[i]) > 0
          /\ call.resps[i].body[1].sport_key = "soccer_epl"
    /\ \E i \in 1..Len(call.result) : call.result[i].sport_key = "soccer_la_liga"

----------------------------------------------------------------------------
(* A caller of DatabricksLoader: connect, create the table, load a file of  *)
(* data/raw, read the statistics, close                                     *)

InitLoader ==
    /\ now = 0
    /\ call = [op |-> "none"]
    /\ http_log = <<>>
    /\ extraction_summary = <<>>
    /\ combined_df = <<>>
    /\ files = LoaderFiles
    /\ connection = "none"
    /\ \/ table_exists = FALSE /\ table = <<>>
       \/ table_exists = TRUE /\ table \in {<<>>, OldRows}
    /\ DagIdle

ConnectCall ==
    /\ call.op = "none"
    /\ \E ok \in BOOLEAN :
          LET r == connect(ok, connection)
          IN  /\ call' = [op |-> "connect", result |-> r.result]
              /\ connection' = r.connection
    /\ UNCHANGED <<now, http_log, extraction_summary, combined_df, files,
                   table_exists, table,
                   dag_vars>>

CreateTableCall ==
    /\ call.op = "connect"
    /\ \E ddl_ok \in BOOLEAN :
          LET r == create_bronze_table(ddl_ok, connection, table_exists)
          IN  /\ call' = [op |-> "create_bronze_table", ddl_ok |-> ddl_ok,
                          calls |-> 1,
                          before |-> table, existed |-> table_exists,
                          result |-> r.result, raised |-> r.raised]
              /\ table_exists' = r.table_exists
    /\ UNCHANGED <<now, http_log, extraction_summary, combined_df, files,
                   connection, table,
                   dag_vars>>

LoadCall ==
    /\ call.op = "create_bronze_table"
    /\ \E path \in DOMAIN files \cup {MissingPath} :
       \E fail_at \in 0..RowsAt(path) :
          LET r == load_csv_to_bronze(path, fail_at, files, connection,
                                      table_exists, table, now)
          IN  /\ call' = [op |-> "load_csv_to_bronze", path |-> path,
                          fail_at |-> fail_at, connection |-> connection,
                          table_exists |-> table_exists, before |-> table,
                          result |-> r.result, caught |-> r.caught,
                          raised |-> "none"]
              /\ table' = r.table
    /\ UNCHANGED <<now, http_log, extraction_summary, combined_df, files,
                   connection, table_exists,
                   dag_vars>>

StatsCall ==
    /\ call.op = "load_csv_to_bronze"
    /\ \E query_fail \in 0..5 :
          call' = [op |-> "get_table_stats", query_fail |-> query_fail,
                   result |-> get_table_stats(query_fail, connection,
                                              table_exists, table),
                   raised |-> "none"]
    /\ UNCHANGED <<now, http_log, extraction_summary, combined_df, files,
                   connection, table_exists, table,
                   dag_vars>>

CloseCall ==
    /\ call.op \in {"connect", "create_bronze_table", "load_csv_to_bronze",
                    "get_table_stats"}
    /\ call' = [op |-> "close"]
    /\ connection' = close(connection)
    /\ UNCHANGED <<now, http_log, extraction_summary, combined_df, files,
                   table_exists, table,
                   dag_vars>>

NextLoader ==
    Tick \/ ConnectCall \/ CreateTableCall \/ LoadCall \/ StatsCall \/ CloseCall

SpecLoader == InitLoader /\ [][NextLoader]_vars

----------------------------------------------------------------------------
(* Claims about the loader, checked under SpecLoader *)

\* the table row r is the load of the line c of a file: the columns that
\* identify an outcome agree
RowOfLine(r, c) ==
    /\ r.game_id = c.game_id
    /\ r.sport_key = c.sport_key
    /\ r.market_type = c.market_type
    /\ r.outcome_name = c.outcome_name

\* the table is `before` followed by the first n lines of the file, in order
AppendedPrefix(before, lines, n) ==
    /\ Len(table) = Len(before) + n
    /\ SubSeq(table, 1, Len(before)) = before
    /\ \A i \in 1..n : RowOfLine(table[Len(before) + i], lines[i])

\* C8 as claimed: load_csv_to_bronze of a path of no file fails with
\* FileNotFoundError at its caller.
C8_MissingFileRaises ==
    (call.op = "load_csv_to_bronze" /\ call.path \notin DOMAIN files) =>
        call.raised = "FileNotFoundError"

\* what the code does for C8: the error is caught and 0 is returned, as for an
\* empty file
C8_MissingFileReturnsZero ==
    (call.op = "load_csv_to_bronze" /\ call.path \notin DOMAIN files) =>
        /\ call.raised = "none"
        /\ call.caught = "FileNotFoundError"
        /\ call.result = 0
        /\ table = call.before

\* C9: load_csv_to_bronze of a file of N rows, on an open connection to a
\* store that has the table and fails no INSERT, returns N and appends the N
\* rows in file order (N below, at and above multiples of the batch size);
\* of an empty file it returns 0, appends nothing and raises nothing.
C9_LoadReturnsRowCount ==
    (call.op = "load_csv_to_bronze" /\ call.path \in DOMAIN files) =>
        LET lines == files[call.path].rows
        IN  /\ (Len(lines) > 0 /\ call.connection = "open"
                  /\ call.table_exists /\ call.fail_at = 0) =>
                   /\ call.result = Len(lines)
                   /\ call.raised = "none"
                   /\ AppendedPrefix(call.before, lines, Len(lines))
            /\ Len(lines) = 0 =>
                   /\ call.result = 0
                   /\ call.raised = "none"
                   /\ table = call.before

\* C9 witness: a file of two full batches and one row was loaded after
\* earlier rows
C9_Witness ==
    /\ call.op = "load_csv_to_bronze"
    /\ call.path \in DOMAIN files
    /\ Len(files[call.path].rows) = 2 * BatchSize + 1
    /\ call.result = 2 * BatchSize + 1
    /\ call.before /= <<>>
    /\ Len(table) = Len(call.before) + 2 * BatchSize + 1

\* C10: when INSERT number k of a load fails, the table is the table before
\* the load followed by the k-1 rows inserted before it: nothing is rolled
\* back or deleted.
C10_PartialInsertRemains ==
    (call.op = "load_csv_to_bronze" /\ call.path \in DOMAIN files
        /\ call.connection = "open" /\ call.fail_at > 0) =>
        LET k == IF call.table_exists THEN call.fail_at ELSE 1
        IN  /\ call.caught = "Exception"
            /\ AppendedPrefix(call.before, files[call.path].rows, k - 1)

\* C10 witness: the first INSERT of the second batch failed and the first
\* batch stayed in the table after the earlier rows
C10_Witness ==
    /\ call.op = "load_csv_to_bronze"
    /\ call.path \in DOMAIN files
    /\ call.connection = "open"
    /\ call.table_exists
    /\ call.fail_at = BatchSize + 1
    /\ call.before /= <<>>
    /\ Len(table) = Len(call.before) + BatchSize

----------------------------------------------------------------------------
(* Claims about the DAG run, checked under Spec *)

\* the rows load_csv_to_bronze appended in this DAG run
RunRows ==
    IF call.op = "load_csv_to_bronze"
    THEN SubSeq(table, Len(call.before) + 1, Len(table))
    ELSE <<>>

\* the table row r is the load of the extracted record x
RowOfRecord(r, x) ==
    /\ r.game_id = x.game_id
    /\ r.sport_key = x.sport_key
    /\ r.market_type = x.market_type
    /\ r.outcome_name = x.outcome_name

\* C5 as claimed: once load_to_databricks has succeeded for a non-empty
\* extracted dataset, every extracted row is among the rows appended to
\* bronze.odds_raw.
C5_SuccessfulLoadLandsEveryRow ==
    (ti["load_to_databricks"] = "success" /\ combined_df /= <<>>) =>
        \A i \in 1..Len(combined_df) :
            \E j \in 1..Len(RunRows) : RowOfRecord(RunRows[j], combined_df[i])

\* an INSERT of the load of this DAG run raised
InsertFailed ==
    /\ call.op = "load_csv_to_bronze"
    /\ call.path \in DOMAIN files
    /\ Len(files[call.path].rows) > 0
    /\ call.connection = "open"
    /\ (call.fail_at > 0 \/ ~call.table_exists)

\* C6 as claimed: when an INSERT of the load raises, the try of
\* load_to_databricks fails (it is retried, or failed for good).
C6_InsertErrorFailsLoadStep ==
    InsertFailed => ti["load_to_databricks"] \in {"up_for_retry", "failed"}

\* C7 as claimed: when df.to_csv raises in save_to_csv, the try of
\* extract_odds fails (it is retried, or failed for good).
C7_WriteFailureFailsExtractStep ==
    (call.op = "save_to_csv" /\ ~call.io_ok) =>
        ti["extract_odds"] \in {"up_for_retry", "failed"}

\* the steps whose outcome the notification is to report
Chain ==
    {"extract_odds", "load_to_databricks", "validate_data", "prepare_summary",
     "run_dbt_models", "run_dbt_tests"}

\* send_success_email / send_failure_email has sent its message
SuccessSent == \E e \in emails : e.kind = "success"
FailureSent == \E e \in emails : e.kind = "failure"

\* every task instance of the run is finished
RunDone == \A t \in Tasks : ti[t] \in Finished

\* C11 as claimed: the success notification is sent only when every step of
\* the chain succeeded, and a finished run in which a step of the chain failed
\* has sent the failure notification and not the success notification.
C11_NotificationFollowsChain ==
    /\ SuccessSent => \A t \in Chain : ti[t] = "success"
    /\ (RunDone /\ \E t \in Chain : ti[t] = "failed") =>
           (FailureSent /\ ~SuccessSent)

\* the order of the steps of a run
StepOrder ==
    <<{"extract_odds"}, {"load_to_databricks"}, {"validate_data"},
      {"prepare_summary"}, {"run_dbt_models"}, {"run_dbt_tests"},
      {"send_success_email", "send_failure_email"}>>

\* a try of t has started
Started(t) == tries[t] > 0

\* C13 as claimed: a step has started only if every step ahead of it in
\* Extract, Load, Validate, Summarize, Transform, Test, Notify is finished.
C13_StepsInOrder ==
    \A j \in 1..Len(StepOrder) : \A i \in 1..(j - 1) :
        \A t \in StepOrder[j], u \in StepOrder[i] :
            Started(t) => ti[u] \in Finished

----------------------------------------------------------------------------
(* The DAG run under a scheduler that keeps working: a task whose trigger   *)
(* rule is met is started, a running try ends, while there is anything to   *)
(* do                                                                        *)

FairSpec == InitDag /\ [][Next]_vars /\ WF_vars(Next)

\* C12: in every run run_dbt_models is eventually executed, whatever Extract,
\* Load, Validate and Summarize did.
C12_TransformEventuallyRuns == <>Started("run_dbt_models")

\* C12 witness: run_dbt_models is executing in a run whose Extract step failed
\* and whose Load, Validate and Summarize steps never ran
C12_Witness ==
    /\ ti["run_dbt_models"] = "running"
    /\ ti["extract_odds"] = "failed"
    /\ \A t \in {"load_to_databricks", "validate_data", "prepare_summary"} :
          ti[t] = "upstream_failed"

----------------------------------------------------------------------------
(* Claims about runs without data, checked under Spec *)

\* extract_odds ended with an empty combined dataset
NoDataExtracted == ti["extract_odds"] = "success" /\ combined_df = <<>>

\* a try of t has ended
Ended(t) == Started(t) /\ ti[t] /= "running"

\* C14: when the combined dataset is empty no file path is produced and no
\* file is created, and the Load step opens no connection, calls no load,
\* leaves the table as it was, reports 0 rows loaded and does not fail.
C14_EmptyDatasetIsNoOp ==
    NoDataExtracted =>
        /\ xcom.csv_filepath = None
        /\ files = NoFiles
        /\ connection = "none"
        /\ call.op /= "load_csv_to_bronze"
        /\ table \in {<<>>, OldRows}
        /\ ti["load_to_databricks"] \notin {"up_for_retry", "failed"}
        /\ Ended("load_to_databricks") =>
              /\ ti["load_to_databricks"] = "success"
              /\ xcom.rows_loaded = Some(0)

\* C14 witness: every league was asked, none gave a record, and the Load step
\* ended, with a store credential missing
C14_Witness ==
    /\ NoDataExtracted
    /\ Len(http_log) = Len(DAG_SOCCER_LEAGUES)
    /\ Ended("load_to_databricks")
    /\ StoreCredentialMissing

\* the summary prepare_summary_task pushed
PipelineSummary == xcom.pipeline_summary[1]

\* C15: in a run where no league yields a record none of Extract, Load,
\* Validate and Summarize fails, the summary reports 0 extracted and 0 loaded
\* rows, and when Transform and Test succeed the failure notification is not
\* sent.
C15_NoDataIsSuccessWithZero ==
    NoDataExtracted =>
        /\ \A t \in {"extract_odds", "load_to_databricks", "validate_data",
                     "prepare_summary"} :
              ti[t] \in {"none", "running", "success"}
        /\ ti["prepare_summary"] = "success" =>
              /\ PipelineSummary.extracted_rows = 0
              /\ PipelineSummary.loaded_rows = 0
        /\ (ti["run_dbt_models"] = "success"
              /\ ti["run_dbt_tests"] = "success") =>
              /\ ~FailureSent
              /\ ti["send_failure_email"] \in {"none", "skipped"}

\* C15 witness: a finished run without data whose Transform and Test steps
\* succeeded and whose failure notification was skipped
C15_Witness ==
    /\ NoDataExtracted
    /\ RunDone
    /\ ti["run_dbt_models"] = "success"
    /\ ti["run_dbt_tests"] = "success"
    /\ ti["send_failure_email"] = "skipped"
    /\ PipelineSummary.status = "no_data"

\* C16: validate_data never fails; once it has ended it has published
\* validation_passed = (loaded rows > 0) in the dict it returns, and under the
\* key validation_passed when rows were extracted, and prepare_summary can
\* run, whatever the two counts are.
C16_ValidateNeverFails ==
    /\ ti["validate_data"] \notin {"up_for_retry", "failed"}
    /\ Ended("validate_data") =>
          /\ ti["validate_data"] = "success"
          /\ xcom.validate_data_return /= None
          /\ xcom.validate_data_return[1].validation_passed
                = (xcom.rows_loaded[1] > 0)
          /\ xcom.row_count /= Some(0) =>
                xcom.validation_passed = Some(xcom.rows_loaded[1] > 0)
          /\ Started("prepare_summary") \/ Runnable("prepare_summary")

\* C16 witness: one row was extracted and none loaded, validate_data
\* published False and prepare_summary ran
C16_Witness ==
    /\ xcom.row_count = Some(1)
    /\ xcom.rows_loaded = Some(0)
    /\ ti["validate_data"] = "success"
    /\ xcom.validation_passed = Some(FALSE)
    /\ ti["prepare_summary"] = "success"

----------------------------------------------------------------------------
(* Claims about credentials, checked under Spec *)

\* the try of t that ended raised
Failing(t) == ti[t] \in {"up_for_retry", "failed"}

\* C17 as claimed: without an API key extract_odds fails and no HTTP request
\* is issued; with a store credential missing load_to_databricks fails and no
\* connection is opened.
C17_MissingCredentialIsFatal ==
    /\ ~env.ODDS_API_KEY =>
          /\ http_log = <<>>
          /\ Ended("extract_odds") => Failing("extract_odds")
    /\ StoreCredentialMissing =>
          /\ connection = "none"
          /\ Ended("load_to_databricks") => Failing("load_to_databricks")

\* C17 amended: the store credentials are tested only when there is a file to
\* load.  Without an API key extract_odds fails and no HTTP request is
\* issued; with a store credential missing no connection is opened and no
\* load is called, and load_to_databricks fails when extract_odds pushed a
\* file path and reports 0 rows loaded without failing when it pushed none.
C17_MissingCredentialFatalWhenNeeded ==
    /\ ~env.ODDS_API_KEY =>
          /\ http_log = <<>>
          /\ Ended("extract_odds") => Failing("extract_odds")
    /\ StoreCredentialMissing =>
          /\ connection = "none"
          /\ call.op /= "load_csv_to_bronze"
          /\ Ended("load_to_databricks") =>
                IF xcom.csv_filepath = None
                THEN /\ ti["load_to_databricks"] = "success"
                     /\ xcom.rows_loaded = Some(0)
                ELSE Failing("load_to_databricks")

\* C17 witness: a file was written, a store credential is missing and
\* load_to_databricks has failed for good
C17_Witness ==
    /\ StoreCredentialMissing
    /\ xcom.csv_filepath /= None
    /\ xcom.csv_filepath[1] \in DOMAIN files
    /\ ti["load_to_databricks"] = "failed"
    /\ tries["load_to_databricks"] = Retries + 1

----------------------------------------------------------------------------
(* A caller that makes sure of the table several times in a row: connect,   *)
(* create_bronze_table again and again, close                               *)

CreateTableAgainCall ==
    /\ call.op = "create_bronze_table"
    /\ call.calls < MaxCreates
    /\ \E ddl_ok \in BOOLEAN :
          LET r == create_bronze_table(ddl_ok, connection, table_exists)
          IN  /\ call' = [op |-> "create_bronze_table", ddl_ok |-> ddl_ok,
                          calls |-> call.calls + 1,
                          before |-> table, existed |-> table_exists,
                          result |-> r.result, raised |-> r.raised]
              /\ table_exists' = r.table_exists
    /\ UNCHANGED <<now, http_log, extraction_summary, combined_df, files,
                   connection, table,
                   dag_vars>>

NextEnsureTable ==
    Tick \/ ConnectCall \/ CreateTableCall \/ CreateTableAgainCall \/ CloseCall

SpecEnsureTable == InitLoader /\ [][NextEnsureTable]_vars

----------------------------------------------------------------------------
(* Claims about the table *)

\* C18: create_bronze_table, called once or several times in a row, on any
\* connection and whether or not its statement fails, raises nothing and
\* returns True, leaves every row of the table as it was and never makes an
\* existing table disappear.
C18_EnsureTableIdempotent ==
    call.op = "create_bronze_table" =>
        /\ call.result = TRUE
        /\ call.raised = "none"
        /\ table = call.before
        /\ call.existed => table_exists

\* C18 witness: a third call in a row whose statement failed, on a table
\* that holds rows
C18_Witness ==
    /\ call.op = "create_bronze_table"
    /\ call.calls = 3
    /\ ~call.ddl_ok
    /\ table = OldRows

\* s is the beginning of t
IsPrefix(s, t) == Len(s) <= Len(t) /\ SubSeq(t, 1, Len(s)) = s

\* C19: every step of a DAG run leaves the rows of bronze.odds_raw where they
\* are and as they are; the table only gains rows, at its end, and only in a
\* step of load_to_databricks that calls load_csv_to_bronze.
C19_TableAppendOnly ==
    [][/\ IsPrefix(table, table')
       /\ table' /= table =>
             /\ ti["load_to_databricks"] = "running"
             /\ call'.op = "load_csv_to_bronze"]_vars

\* C19 witness: a load appended a row after the rows of earlier runs
C19_Witness ==
    /\ call.op = "load_csv_to_bronze"
    /\ call.before = OldRows
    /\ Len(table) > Len(OldRows)
    /\ IsPrefix(OldRows, table)

----------------------------------------------------------------------------
(* Claims about the statistics, checked under Spec *)

\* the keys of the mapping get_table_stats returns
StatKeys == {"row_count", "latest_date", "sports", "matches", "markets"}

\* the statistics load_to_databricks_task pushed
DbStats == xcom.db_stats[1]

\* C20: on the table of every reachable state get_table_stats returns the
\* five keys when its five queries succeed and an empty mapping when any one
\* of them fails; the statistics a run pushed are one or the other, and from
\* the empty mapping the summary reports 0 for every count of the table and
\* 'N/A' for the latest date.
C20_StatsDegradeToEmpty ==
    /\ table_exists =>
          DOMAIN get_table_stats(0, "open", table_exists, table) = StatKeys
    /\ \A q \in 1..Cardinality(StatKeys) :
          DOMAIN get_table_stats(q, "open", table_exists, table) = {}
    /\ xcom.db_stats /= None => DOMAIN DbStats \in {{}, StatKeys}
    /\ (ti["prepare_summary"] = "success" /\ xcom.db_stats /= None
          /\ DOMAIN DbStats = {}) =>
          /\ PipelineSummary.total_bronze_rows = 0
          /\ PipelineSummary.sports_covered = 0
          /\ PipelineSummary.matches_total = 0
          /\ PipelineSummary.market_types = 0
          /\ PipelineSummary.latest_data_date = "N/A"

\* C20 witness: a row was loaded, a query of the statistics failed and the
\* summary reports an empty table
C20_Witness ==
    /\ call.op = "load_csv_to_bronze"
    /\ call.result > 0
    /\ table_exists
    /\ Len(table) > 0
    /\ xcom.db_stats /= None
    /\ DOMAIN DbStats = {}
    /\ ti["prepare_summary"] = "success"
    /\ PipelineSummary.loaded_rows > 0
    /\ PipelineSummary.total_bronze_rows = 0
    /\ PipelineSummary.latest_data_date = "N/A"

----------------------------------------------------------------------------
(* A caller that writes a dataset with OddsAPIExtractor.save_to_csv and     *)
(* reads the file back as DatabricksLoader.load_csv_to_bronze does          *)

ReadCsvCall ==
    /\ call.op = "save_to_csv"
    /\ call.result /= None
    /\ call' = [op |-> "read_csv", df |-> call.df, path |-> call.result[1],
                result |-> read_csv(files[call.result[1]], now)]
    /\ UNCHANGED <<now, http_log, extraction_summary, combined_df, files,
                   connection, table_exists, table,
                   dag_vars>>

NextRoundTrip == NextExtractor \/ ReadCsvCall

SpecRoundTrip == Init /\ [][NextRoundTrip]_vars

\* C21: the frame read back from the file save_to_csv wrote has as many rows
\* as the dataset written, in the same order, and the same point in every
\* row: 2.5 where it was 2.5, missing where there was none.
C21_CsvRoundTrip ==
    call.op = "read_csv" =>
        /\ Len(call.result) = Len(call.df)
        /\ \A i \in 1..Len(call.df) :
              /\ call.result[i].game_id = call.df[i].game_id
              /\ call.result[i].market_type = call.df[i].market_type
              /\ call.result[i].outcome_name = call.df[i].outcome_name
              /\ call.result[i].odds = Some(call.df[i].odds)
              /\ call.result[i].point = call.df[i].point

\* C21 witness: a dataset with an h2h row without point and a totals row with
\* point 2.5 was written and read back
C21_Witness ==
    /\ call.op = "read_csv"
    /\ \E i \in 1..Len(call.df) :
          /\ call.df[i].market_type = "h2h"
          /\ call.df[i].point = None
          /\ call.result[i].point = None
    /\ \E i \in 1..Len(call.df) :
          /\ call.df[i].market_type = "totals"
          /\ call.df[i].point = Some(250)
          /\ call.result[i].point = Some(250)

----------------------------------------------------------------------------
(* The DAG runs of odds_api_pipeline under the scheduler: runs are created  *)
(* by the schedule or by hand, and at most max_active_runs of them are      *)
(* running                                                                   *)

\* max_active_runs of the DAG
max_active_runs == 1

\* everything but the DAG runs
run_others ==
    <<now, call, http_log, extraction_summary, combined_df, files, connection,
      table_exists, table, env, ti, tries, xcom, emails>>

RunIds == 1..MaxRuns

\* the DAG runs in state running
RunningRuns == {r \in RunIds : runs[r].state = "running"}

\* mutant of CanActivate: the scheduler sets no limit on the running DAG runs
CanActivate_Unlimited(active) == TRUE

\* the scheduler may set one more DAG run running
CanActivate(active) == active < max_active_runs

\* the trigger rule of t is met by the task instances s of a DAG run
RunnableIn(s, t) ==
    CASE TriggerRule(t) = "all_success" ->
            \A u \in Upstream(t) : s[u] = "success"
      [] TriggerRule(t) = "all_done" ->
            \A u \in Upstream(t) : s[u] \in Finished
      [] TriggerRule(t) = "one_failed" ->
            \E u \in Upstream(t) : s[u] \in {"failed", "upstream_failed"}

\* the tasks whose try can raise
FallibleTasks ==
    {"extract_odds", "load_to_databricks", "run_dbt_models", "run_dbt_tests"}

\* the schedule, or a manual trigger, creates the next DAG run: it is queued
CreateRun(r) ==
    /\ runs[r].state = "none"
    /\ \A q \in RunIds : q < r => runs[q].state /= "none"
    /\ runs' = [runs EXCEPT ![r].state = "queued"]
    /\ UNCHANGED run_others

\* the scheduler sets a queued DAG run running
ActivateRun(r) ==
    /\ runs[r].state = "queued"
    /\ CanActivate(Cardinality(RunningRuns))
    /\ runs' = [runs EXCEPT ![r].state = "running"]
    /\ UNCHANGED run_others

\* the scheduler starts a try of task t of the running DAG run r
RunStartTask(r, t) ==
    /\ runs[r].state = "running"
    /\ runs[r].ti[t] \in {"none", "up_for_retry"}
    /\ RunnableIn(runs[r].ti, t)
    /\ runs' = [runs EXCEPT ![r].ti[t] = "running", ![r].tries[t] = @ + 1]
    /\ UNCHANGED run_others

RunMarkUpstreamFailed(r, t) ==
    /\ runs[r].state = "running"
    /\ runs[r].ti[t] = "none"
    /\ TriggerRule(t) = "all_success"
    /\ \E u \in Upstream(t) : runs[r].ti[u] \in {"failed", "upstream_failed"}
    /\ runs' = [runs EXCEPT ![r].ti[t] = "upstream_failed"]
    /\ UNCHANGED run_others

RunMarkSkipped(r, t) ==
    /\ runs[r].state = "running"
    /\ runs[r].ti[t] = "none"
    /\ TriggerRule(t) = "one_failed"
    /\ \A u \in Upstream(t) : runs[r].ti[u] \in Finished \ {"failed", "upstream_failed"}
    /\ runs' = [runs EXCEPT ![r].ti[t] = "skipped"]
    /\ UNCHANGED run_others

\* a try of task t of DAG run r ends, well or by raising
RunEndTry(r, t) ==
    /\ runs[r].ti[t] = "running"
    /\ \E ok \in (IF t \in FallibleTasks THEN BOOLEAN ELSE {TRUE}) :
          runs' = [runs EXCEPT ![r].ti[t] =
                      IF ok THEN "success"
                      ELSE IF runs[r].tries[t] <= Retries THEN "up_for_retry"
                      ELSE "failed"]
    /\ UNCHANGED run_others

\* a DAG run with no unfinished task instance is over: failed if a leaf task
\* failed, success otherwise
FinishRun(r) ==
    /\ runs[r].state = "running"
    /\ \A t \in Tasks : runs[r].ti[t] \in Finished
    /\ runs' = [runs EXCEPT ![r].state =
                   IF \E t \in {"send_success_email", "send_failure_email"} :
                         runs[r].ti[t] \in {"failed", "upstream_failed"}
                   THEN "failed" ELSE "success"]
    /\ UNCHANGED run_others

NextRuns ==
    \/ \E r \in RunIds : CreateRun(r)
    \/ \E r \in RunIds : ActivateRun(r)
    \/ \E r \in RunIds : FinishRun(r)
    \/ \E r \in RunIds, t \in Tasks : RunStartTask(r, t)
    \/ \E r \in RunIds, t \in Tasks : RunMarkUpstreamFailed(r, t)
    \/ \E r \in RunIds, t \in Tasks : RunMarkSkipped(r, t)
    \/ \E r \in RunIds, t \in Tasks : RunEndTry(r, t)

SpecRuns == Init /\ [][NextRuns]_vars

\* a step of DAG run r has started / every step of it is finished
Begun(r) == \E t \in Tasks : runs[r].tries[t] > 0
Complete(r) == \A t \in Tasks : runs[r].ti[t] \in Finished

\* C22: at most one DAG run is running, and of two DAG runs that have started
\* a step one has finished all its steps: no step of a run starts while a
\* step of another run is running, waiting for a retry or still to come.
C22_OneActiveRun ==
    /\ Cardinality(RunningRuns) <= max_active_runs
    /\ \A r1, r2 \in RunIds :
          (r1 /= r2 /\ Begun(r1) /\ Begun(r2)) => (Complete(r1) \/ Complete(r2))

\* C22 witness: a second run was created while the first was running, and a
\* step of it is running now that the first run has failed
C22_Witness ==
    /\ runs[1].state = "failed"
    /\ Complete(1)
    /\ runs[2].state = "running"
    /\ runs[2].ti["load_to_databricks"] = "running"

----------------------------------------------------------------------------
(* Claims about the notifications and the connection, checked under Spec *)

\* prepare_summary and run_dbt_tests, the upstream tasks of both e-mails, are
\* finished
NotifyUpstreamDone ==
    ti["prepare_summary"] \in Finished /\ ti["run_dbt_tests"] \in Finished

\* C23: the trigger rules of send_success_email and send_failure_email are
\* never met together and the two e-mails are never both started or sent; as
\* soon as prepare_summary and run_dbt_tests are finished exactly one of the
\* two rules is met, and a finished run has sent exactly one of the two.
C23_OneNotification ==
    /\ ~(Runnable("send_success_email") /\ Runnable("send_failure_email"))
    /\ ~(Started("send_success_email") /\ Started("send_failure_email"))
    /\ ~(SuccessSent /\ FailureSent)
    /\ NotifyUpstreamDone =>
          (Runnable("send_success_email") <=> ~Runnable("send_failure_email"))
    /\ RunDone => (SuccessSent <=> ~FailureSent)

\* C23 witness: a finished run whose Summarize step succeeded and whose Test
\* step failed sent the failure notification alone
C23_Witness ==
    /\ RunDone
    /\ ti["prepare_summary"] = "success"
    /\ ti["run_dbt_tests"] = "failed"
    /\ FailureSent
    /\ ~SuccessSent
    /\ ti["send_success_email"] = "upstream_failed"

\* C24: no step of a run ends with the store connection open.  A try of
\* load_to_databricks whose connect failed leaves no connection; a try that
\* connected has closed the connection when it ends, whatever
\* create_bronze_table, load_csv_to_bronze and get_table_stats did.
C24_ConnectionClosed ==
    /\ connection /= "open"
    /\ Failing("load_to_databricks") => connection = "none"
    /\ call.op = "load_csv_to_bronze" =>
          /\ call.connection = "open"
          /\ connection = "closed"
          /\ ti["load_to_databricks"] = "success"

\* C24 witness: after a try whose connect failed, a second try connected, its
\* load caught an error, its statistics failed, and the connection is closed
C24_Witness ==
    /\ tries["load_to_databricks"] = 2
    /\ call.op = "load_csv_to_bronze"
    /\ call.caught = "Exception"
    /\ DOMAIN DbStats = {}
    /\ connection = "closed"

====
